---- MODULE Spec2Model ----
(***************************************************************************)
(* Time-domain EM problem, b-formulation (simpegEM/TDEM/TDEM_b.py).        *)
(*                                                                         *)
(* Vectors and matrices are sequences of rows; a field vector is a matrix  *)
(* with one column per transmitter.  Field histories (FieldsTDEM objects)  *)
(* live in a heap, so that object identity and aliasing are part of the    *)
(* state.                                                                  *)
(***************************************************************************)
EXTENDS Integers, Sequences, FiniteSets, TLC

VARIABLES times, heap, origin, mass, drv, ret

vars == <<times, heap, origin, mass, drv, ret>>

----------------------------------------------------------------------------
(* Bounds of the model. *)

MaxNT == 2
MaxObj == 3

----------------------------------------------------------------------------
(* Exact arithmetic.  The program computes with +, -, *, / and a linear    *)
(* solve only; its floating point numbers are modelled by the elements    *)
(* 0..Prime-1 of a prime field, in which these operations are exact       *)
(* (solver tolerance becomes equality; 1/2 is the inverse of 2).          *)

Prime == 2^13 - 1

RZero == 0
ROne == 1
Num(n) == n % Prime
RAdd(x, y) == (x + y) % Prime
RNeg(x) == (Prime - x) % Prime
RSub(x, y) == (x + Prime - y) % Prime
RMul(x, y) == (x * y) % Prime

RECURSIVE RPow(_, _)
RPow(x, n) ==
    IF n = 0 THEN 1
    ELSE LET h == RPow(x, n \div 2)
             sq == RMul(h, h)
         IN  IF n % 2 = 1 THEN RMul(sq, x) ELSE sq

RInv(x) == RPow(x, Prime - 2)

----------------------------------------------------------------------------
(* Dense linear algebra on sequences of rows. *)

NRows(A) == Len(A)
NCols(A) == Len(A[1])

Dot(A, B, i, j) ==
    LET RECURSIVE S(_)
        S(k) == IF k = 0 THEN RZero
                ELSE RAdd(S(k - 1), RMul(A[i][k], B[k][j]))
    IN  S(NCols(A))

(* Sequences and matrices are built element by element (explicit tuples). *)
MkSeq(n, Op(_)) ==
    LET RECURSIVE R(_)
        R(k) == IF k = 0 THEN <<>> ELSE Append(R(k - 1), Op(k))
    IN  R(n)

MkMat(n, k, Op(_, _)) == MkSeq(n, LAMBDA i : MkSeq(k, LAMBDA j : Op(i, j)))

MatMul(A, B) == MkMat(NRows(A), NCols(B), LAMBDA i, j : Dot(A, B, i, j))
MatAdd(A, B) == MkMat(NRows(A), NCols(A), LAMBDA i, j : RAdd(A[i][j], B[i][j]))
MatSub(A, B) == MkMat(NRows(A), NCols(A), LAMBDA i, j : RSub(A[i][j], B[i][j]))
Scale(c, A) == MkMat(NRows(A), NCols(A), LAMBDA i, j : RMul(c, A[i][j]))
Transpose(A) == MkMat(NCols(A), NRows(A), LAMBDA i, j : A[j][i])
Zeros(n, k) == MkMat(n, k, LAMBDA i, j : RZero)
Diag(d) == MkMat(Len(d), Len(d), LAMBDA i, j : IF i = j THEN d[i] ELSE RZero)
IntMat(M) == MkMat(Len(M), Len(M[1]), LAMBDA i, j : Num(M[i][j]))
IsZero(A) == \A i \in 1..NRows(A) : \A j \in 1..NCols(A) : A[i][j] = RZero


(* Solver(A).solve(rhs) for the nF x nF system: the unique x with A x = rhs. *)
Det(A) ==
    IF NRows(A) = 1 THEN A[1][1]
    ELSE RSub(RMul(A[1][1], A[2][2]), RMul(A[1][2], A[2][1]))

Inverse(A) ==
    IF NRows(A) = 1 THEN <<<<RInv(A[1][1])>>>>
    ELSE Scale(RInv(Det(A)),
               << <<A[2][2], RNeg(A[1][2])>>, <<RNeg(A[2][1]), A[1][1]>> >>)

Solve(A, rhs) == MatMul(Inverse(A), rhs)

----------------------------------------------------------------------------
(* The mesh: two edges, two faces, two cells; one transmitter column. *)

nE == 2
nF == 2
nC == 2
nTx == 1

edgeCurl == IntMat(<< <<1, -1>>, <<0, 1>> >>)
getEdgeMassDeriv == IntMat(<< <<1, 0>>, <<1, 1>> >>)
faceMui == IntMat(<< <<2, 1>>, <<1, 2>> >>)

(* Models, directions and step sizes the callers use. *)
Models == { <<1, 1>>, <<2, 1>> }
Directions == { <<1, 0>>, <<1, 1>> }
Half == RInv(2)
TimeMesh(n) == MkSeq(n, LAMBDA i : IF i % 2 = 1 THEN 2 ELSE Half)
E1 == IntMat(<< <<1>>, <<-1>> >>)
B1 == IntMat(<< <<1>>, <<2>> >>)
InitialField == IntMat(<< <<1>>, <<1>> >>)

transform(m) == m
transformDeriv(m) == Diag(MkSeq(nC, LAMBDA i : ROne))

Col(v) == MkSeq(Len(v), LAMBDA i : <<v[i]>>)
Flat(M) == MkSeq(NRows(M), LAMBDA i : M[i][1])

----------------------------------------------------------------------------
(* Mass matrices held by the problem object.  They are attributes set by   *)
(* makeMassMatrices; before the first call, reading one raises             *)
(* AttributeError.                                                         *)

NoMass == [built |-> FALSE, m |-> <<>>, MeSigma |-> <<>>, MeSigmaI |-> <<>>, MfMui |-> <<>>]

makeMassMatrices(m) ==
    LET sig == Flat(MatMul(getEdgeMassDeriv, Col(transform(m))))
    IN  [built |-> TRUE, m |-> m,
         MeSigma |-> Diag(sig),
         MeSigmaI |-> Diag(MkSeq(nE, LAMBDA i : RInv(sig[i]))),
         MfMui |-> faceMui]

getDt(tm, tInd) == tm[tInd + 1]

----------------------------------------------------------------------------
(* FieldsTDEM: the field history container.  Index -1 is the initial      *)
(* field, zero unless seeded; the entries of a new container are unset.    *)

Unset == <<>>
NoObj == [e |-> <<>>, b |-> <<>>, b0 |-> <<>>, live |-> FALSE]

FieldsTDEM(n) ==
    [e |-> MkSeq(n, LAMBDA i : Unset), b |-> MkSeq(n, LAMBDA i : Unset),
     b0 |-> Zeros(nF, nTx), live |-> TRUE]

get_e(F, i) == IF F.e[i + 1] = Unset THEN Zeros(nE, nTx) ELSE F.e[i + 1]
get_b(F, i) ==
    IF i = -1 THEN F.b0
    ELSE IF F.b[i + 1] = Unset THEN Zeros(nF, nTx) ELSE F.b[i + 1]
set_e(h, f, val, i) == [h EXCEPT ![f].e[i + 1] = val]
set_b(h, f, val, i) ==
    IF i = -1 THEN [h EXCEPT ![f].b0 = val] ELSE [h EXCEPT ![f].b[i + 1] = val]

Live(h) == {o \in 1..MaxObj : h[o].live}
Free(h) == {o \in 1..MaxObj : ~h[o].live}
NewObj(h) == CHOOSE o \in Free(h) : \A q \in Free(h) : o <= q
Complete(F) == \A i \in 1..Len(F.b) : F.b[i] # Unset /\ F.e[i] # Unset

----------------------------------------------------------------------------
(* Internal methods. *)

getA_noTrailingMfMui(ms, tm, tInd) ==
    LET dt == getDt(tm, tInd)
    IN  MatAdd(MatMul(MatMul(MatMul(ms.MfMui, edgeCurl), ms.MeSigmaI), Transpose(edgeCurl)),
               Scale(RInv(dt), ms.MfMui))

getA(ms, tm, tInd) ==
    LET dt == getDt(tm, tInd)
    IN  MatAdd(MatMul(MatMul(MatMul(MatMul(ms.MfMui, edgeCurl), ms.MeSigmaI),
                             Transpose(edgeCurl)), ms.MfMui),
               Scale(RInv(dt), ms.MfMui))

getRHS_bIndex_wrap(tInd) == IF tInd = 0 THEN Len(times) - 1 ELSE tInd - 1

getRHS_bIndex_current(tInd) == tInd

getRHS_bIndex(tInd) == tInd - 1

getRHS(ms, tm, tInd, F) ==
    LET dt == getDt(tm, tInd)
    IN  Scale(RInv(dt), MatMul(ms.MfMui, get_b(F, getRHS_bIndex(tInd))))

calcFields(ms, sol, tInd) ==
    [b |-> sol,
     e |-> MatMul(MatMul(MatMul(ms.MeSigmaI, Transpose(edgeCurl)), ms.MfMui), sol)]


----------------------------------------------------------------------------
(* Derivatives. *)

G_c_usesM(m, v) == Flat(MatMul(MatMul(getEdgeMassDeriv, transformDeriv(m)), Col(m)))

G_c(m, v) == Flat(MatMul(MatMul(getEdgeMassDeriv, transformDeriv(m)), Col(v)))

G_pVal_noSign(ei, c) == MkMat(NRows(ei), NCols(ei), LAMBDA r, j : RMul(ei[r][j], c[r]))

G_pVal(ei, c) == MkMat(NRows(ei), NCols(ei), LAMBDA r, j : RNeg(RMul(ei[r][j], c[r])))

G_p_alias(h, u) == u

G_p(h, u) == NewObj(h)

(* G on the heap h: allocates p, fills it from u, returns the heap and p. *)
G(h, tm, m, v, u) ==
    LET p == G_p(h, u)
        c == G_c(m, v)
        RECURSIVE loop(_, _)
        loop(hh, i) ==
            IF i >= Len(tm) THEN hh
            ELSE LET ei == get_e(hh[u], i)
                     pVal == G_pVal(ei, c)
                 IN  loop(set_b(set_e(hh, p, pVal, i), p, Zeros(nF, 1), i), i + 1)
    IN  [heap |-> loop([h EXCEPT ![p] = FieldsTDEM(Len(tm))], 0), obj |-> p]

AhRHS_noPrev(ms, tm, p, tInd, u) ==
    MatAdd(MatMul(MatMul(MatMul(ms.MfMui, edgeCurl), ms.MeSigmaI), get_e(p, tInd)),
           MatMul(ms.MfMui, get_b(p, tInd)))

AhRHS(ms, tm, p, tInd, u) ==
    LET rhs == MatAdd(MatMul(MatMul(MatMul(ms.MfMui, edgeCurl), ms.MeSigmaI), get_e(p, tInd)),
                      MatMul(ms.MfMui, get_b(p, tInd)))
    IN  IF tInd = 0 THEN rhs
        ELSE LET dt == getDt(tm, tInd)
             IN  MatAdd(rhs, Scale(RInv(dt), MatMul(ms.MfMui, get_b(u, tInd - 1))))

AhCalcFields_plus(ms, p, sol, tInd) ==
    [b |-> sol,
     e |-> MatAdd(MatMul(MatMul(MatMul(ms.MeSigmaI, Transpose(edgeCurl)), ms.MfMui), sol),
                  MatMul(ms.MeSigmaI, get_e(p, tInd)))]

AhCalcFields(ms, p, sol, tInd) ==
    [b |-> sol,
     e |-> MatSub(MatMul(MatMul(MatMul(ms.MeSigmaI, Transpose(edgeCurl)), ms.MfMui), sol),
                  MatMul(ms.MeSigmaI, get_e(p, tInd)))]

----------------------------------------------------------------------------
(* Functions for tests. *)

AhVec_b(ms, tm, u, i) ==
    LET dt == getDt(tm, i)
        first == MatAdd(Scale(RInv(dt), get_b(u, i)), MatMul(edgeCurl, get_e(u, i)))
    IN  IF i = 0 THEN first
        ELSE MatSub(first, Scale(RInv(dt), get_b(u, i - 1)))

AhVec_e_ones(ms, u, i) ==
    MatSub(MatMul(MatMul(Transpose(edgeCurl), ms.MfMui), get_b(u, i)),
           MatMul(ms.MeSigma, MkMat(nE, nTx, LAMBDA r, j : ROne)))

AhVec_e(ms, u, i) ==
    MatSub(MatMul(MatMul(Transpose(edgeCurl), ms.MfMui), get_b(u, i)),
           MatMul(ms.MeSigma, get_e(u, i)))

AhVec_f(h, u) == NewObj(h)

(* AhVec on the heap h, after makeMassMatrices(m) gave ms. *)
AhVec(h, ms, tm, u) ==
    LET b0 == AhVec_b(ms, tm, h[u], 0)
        e0 == AhVec_e(ms, h[u], 0)
        f == AhVec_f(h, u)
        h0 == set_e(set_b([h EXCEPT ![f] = FieldsTDEM(Len(tm))], f, b0, 0), f, e0, 0)
        RECURSIVE loop(_, _)
        loop(hh, i) ==
            IF i >= Len(tm) THEN hh
            ELSE LET b == AhVec_b(ms, tm, hh[u], i)
                     e == AhVec_e(ms, hh[u], i)
                 IN  loop(set_e(set_b(hh, f, b, i), f, e, i), i + 1)
    IN  [heap |-> loop(h0, 1), obj |-> f]


----------------------------------------------------------------------------
(* State machine: one caller, one problem object, a heap of histories. *)

NoOrigin == [op |-> "none", m |-> <<>>, v |-> <<>>, src |-> 0]
Idle == [pc |-> "idle", tInd |-> 0, F |-> 0, mode |-> "none", p |-> 0,
         m |-> <<>>, cont |-> "none", v |-> <<>>]
NoRet == [op |-> "none", obj |-> 0, val |-> <<>>, err |-> "none", m |-> <<>>,
          tInd |-> 0, bIdx |-> {}]

nT == Len(times)

(* Histories a caller supplies: zero, e at the first step only with b     *)
(* throughout, and both throughout.                                       *)
Hist(eOn, bOn, n) ==
    [e |-> MkSeq(n, LAMBDA i : IF i \in eOn THEN Scale(i, E1) ELSE Zeros(nE, nTx)),
     b |-> MkSeq(n, LAMBDA i : IF i \in bOn THEN Scale(i, B1) ELSE Zeros(nF, nTx)),
     b0 |-> Zeros(nF, nTx), live |-> TRUE]

Histories(n) ==
    { Hist({}, {}, n), Hist({1}, 1..n, n), Hist(1..n, 1..n, n) }

Init ==
    /\ times \in { TimeMesh(n) : n \in 1..MaxNT }
    /\ \E u \in Histories(Len(times)) :
           heap = [o \in 1..MaxObj |-> IF o = 1 THEN u ELSE NoObj]
    /\ origin = [o \in 1..MaxObj |->
                    IF o = 1 THEN [NoOrigin EXCEPT !.op = "input"] ELSE NoOrigin]
    /\ mass = NoMass
    /\ drv = Idle
    /\ ret = NoRet

Usable == {o \in Live(heap) : Complete(heap[o])}

(* getA(tInd), called by a caller whose model is m. *)
CallGetA(m, tInd) ==
    /\ drv.pc = "idle"
    /\ ret' = IF mass.built
              THEN [NoRet EXCEPT !.op = "getA", !.m = m, !.tInd = tInd,
                                 !.val = getA(mass, times, tInd)]
              ELSE [NoRet EXCEPT !.op = "getA", !.m = m, !.tInd = tInd,
                                 !.err = "AttributeError"]
    /\ UNCHANGED <<times, heap, origin, mass, drv>>

(* getRHS(tInd, F), called by a caller whose model is m. *)
CallGetRHS(m, tInd, F) ==
    /\ drv.pc = "idle"
    /\ F \in Usable
    /\ ret' = IF mass.built
              THEN [NoRet EXCEPT !.op = "getRHS", !.m = m, !.tInd = tInd, !.obj = F,
                                 !.bIdx = {getRHS_bIndex(tInd)},
                                 !.val = getRHS(mass, times, tInd, heap[F])]
              ELSE [NoRet EXCEPT !.op = "getRHS", !.m = m, !.tInd = tInd, !.obj = F,
                                 !.err = "AttributeError"]
    /\ UNCHANGED <<times, heap, origin, mass, drv>>

(* G(m, v, u) with u supplied. *)
CallG(m, v, u) ==
    /\ drv.pc = "idle"
    /\ u \in Usable
    /\ Free(heap) # {}
    /\ LET r == G(heap, times, m, v, u)
       IN  /\ heap' = r.heap
           /\ origin' = [origin EXCEPT ![r.obj] = [op |-> "G", m |-> m, v |-> v, src |-> u]]
           /\ ret' = [NoRet EXCEPT !.op = "G", !.m = m, !.obj = r.obj]
    /\ UNCHANGED <<times, mass, drv>>

(* AhVec(m, u) with u supplied. *)
CallAhVec(m, u) ==
    /\ drv.pc = "idle"
    /\ u \in Usable
    /\ Free(heap) # {}
    /\ mass' = makeMassMatrices(m)
    /\ LET r == AhVec(heap, mass', times, u)
       IN  /\ heap' = r.heap
           /\ origin' = [origin EXCEPT ![r.obj] = [op |-> "AhVec", m |-> m, v |-> <<>>, src |-> u]]
           /\ ret' = [NoRet EXCEPT !.op = "AhVec", !.m = m, !.obj = r.obj]
    /\ UNCHANGED <<times, drv>>

(* fields(m, useThisRhs, useThisCalcFields): entry of the time-stepping driver. *)
fields(m, mode, p, cont, v, b0) ==
    LET F == NewObj(heap)
    IN  /\ mass' = makeMassMatrices(m)
        /\ heap' = set_b([heap EXCEPT ![F] = FieldsTDEM(nT)], F, b0, -1)
        /\ origin' = [origin EXCEPT ![F] =
                         [op |-> IF mode = "Ah" THEN "solveAh" ELSE "fields",
                          m |-> m, v |-> <<>>, src |-> p]]
        /\ drv' = [pc |-> "step", tInd |-> 0, F |-> F, mode |-> mode, p |-> p,
                   m |-> m, cont |-> cont, v |-> v]
        /\ ret' = NoRet
        /\ UNCHANGED times

(* solveAh(m, p). *)
CallSolveAh(m, p) ==
    /\ drv.pc = "idle"
    /\ p \in Usable
    /\ Free(heap) # {}
    /\ fields(m, "Ah", p, "return", <<>>, Zeros(nF, nTx))

(* fields(m): the forward solve from the transmitter's initial field. *)
CallFields(m) ==
    /\ drv.pc = "idle"
    /\ Free(heap) # {}
    /\ fields(m, "fwd", 0, "return", <<>>, InitialField)

(* G(m, v) and AhVec(m) with u = None: u = self.fields(m) first. *)
CallGNone(m, v) ==
    /\ drv.pc = "idle"
    /\ Cardinality(Free(heap)) >= 2
    /\ fields(m, "fwd", 0, "G", v, InitialField)

CallAhVecNone(m) ==
    /\ drv.pc = "idle"
    /\ Cardinality(Free(heap)) >= 2
    /\ fields(m, "fwd", 0, "AhVec", <<>>, InitialField)

RHS(d, h) ==
    IF d.mode = "Ah" THEN AhRHS(mass, times, h[d.p], d.tInd, h[d.F])
    ELSE getRHS(mass, times, d.tInd, h[d.F])

CalcFields(d, h, sol) ==
    IF d.mode = "Ah" THEN AhCalcFields(mass, h[d.p], sol, d.tInd)
    ELSE calcFields(mass, sol, d.tInd)

(* One pass of the driver's loop: solve A(tInd) b = rhs, derive e, store both. *)
Step ==
    /\ drv.pc = "step"
    /\ drv.tInd < nT
    /\ LET A == getA(mass, times, drv.tInd)
           rhs == RHS(drv, heap)
       IN  IF Det(A) = RZero
           THEN /\ ret' = [NoRet EXCEPT !.op = "fields", !.err = "SingularSystem"]
                /\ drv' = Idle
                /\ UNCHANGED heap
           ELSE LET sol == Solve(A, rhs)
                    new == CalcFields(drv, heap, sol)
                IN  /\ heap' = set_e(set_b(heap, drv.F, new.b, drv.tInd),
                                     drv.F, new.e, drv.tInd)
                    /\ drv' = [drv EXCEPT !.tInd = @ + 1]
                    /\ UNCHANGED ret
    /\ UNCHANGED <<times, origin, mass>>

(* The loop is over: return F to the caller, which goes on with it. *)
Finish ==
    /\ drv.pc = "step"
    /\ drv.tInd = nT
    /\ drv' = Idle
    /\ CASE drv.cont = "G" ->
              LET r == G(heap, times, drv.m, drv.v, drv.F)
              IN  /\ heap' = r.heap
                  /\ origin' = [origin EXCEPT ![r.obj] =
                                   [op |-> "G", m |-> drv.m, v |-> drv.v, src |-> drv.F]]
                  /\ ret' = [NoRet EXCEPT !.op = "G", !.m = drv.m, !.obj = r.obj]
                  /\ UNCHANGED mass
         [] drv.cont = "AhVec" ->
              /\ mass' = makeMassMatrices(drv.m)
              /\ LET r == AhVec(heap, mass', times, drv.F)
                 IN  /\ heap' = r.heap
                     /\ origin' = [origin EXCEPT ![r.obj] =
                                      [op |-> "AhVec", m |-> drv.m, v |-> <<>>, src |-> drv.F]]
                     /\ ret' = [NoRet EXCEPT !.op = "AhVec", !.m = drv.m, !.obj = r.obj]
         [] OTHER ->
              /\ ret' = [NoRet EXCEPT !.op = IF drv.mode = "Ah" THEN "solveAh" ELSE "fields",
                                      !.m = drv.m, !.obj = drv.F]
              /\ UNCHANGED <<heap, origin, mass>>
    /\ UNCHANGED times

Next ==
    \/ \E m \in Models, v \in Directions, u \in 1..MaxObj : CallG(m, v, u)
    \/ \E m \in Models, u \in 1..MaxObj : CallAhVec(m, u)
    \/ \E m \in Models, p \in 1..MaxObj : CallSolveAh(m, p)
    \/ \E m \in Models : CallFields(m)
    \/ \E m \in Models, v \in Directions : CallGNone(m, v)
    \/ \E m \in Models : CallAhVecNone(m)
    \/ Step
    \/ Finish

Spec == Init /\ [][Next]_vars

(* Callers of the internal methods. *)
NextInternal ==
    \/ \E m \in Models, tInd \in 0..(nT - 1) : CallGetA(m, tInd)
    \/ \E m \in Models, tInd \in 0..(nT - 1), F \in 1..MaxObj : CallGetRHS(m, tInd, F)
    \/ \E m \in Models, u \in 1..MaxObj : CallAhVec(m, u)
    \/ \E m \in Models : CallFields(m)
    \/ Step
    \/ Finish

SpecInternal == Init /\ [][NextInternal]_vars

----------------------------------------------------------------------------
(* Properties. *)

Junk == IntMat(<< <<7>>, <<5>> >>)

(* F with every b entry outside the time indices keep (0-based, -1 the    *)
(* initial field) overwritten.                                            *)
ScrambleB(F, keep) ==
    [F EXCEPT !.b = MkSeq(Len(F.b), LAMBDA k : IF (k - 1) \in keep THEN F.b[k] ELSE Junk),
              !.b0 = IF -1 \in keep THEN F.b0 ELSE Junk]

ZeroHistory(F) ==
    \A i \in 1..Len(F.b) : F.b[i] # Unset /\ F.e[i] # Unset /\ IsZero(F.b[i]) /\ IsZero(F.e[i])

Made(op) == {o \in Usable : origin[o].op = op}

(* C1: solveAh(m, AhVec(m, u)) returns a history with the e and b of u at *)
(* every time index.                                                      *)
RoundTrip ==
    ret.op = "solveAh" =>
        LET y == ret.obj
            f == origin[y].src
            u == origin[f].src
        IN  (origin[f].op = "AhVec" /\ origin[f].m = ret.m) =>
                \A i \in 1..nT : /\ heap[y].e[i] = heap[u].e[i]
                                 /\ heap[y].b[i] = heap[u].b[i]

RoundTripWitness ==
    /\ ret.op = "solveAh"
    /\ LET y == ret.obj
           f == origin[y].src
           u == origin[f].src
       IN  /\ origin[f].op = "AhVec" /\ origin[f].m = ret.m
           /\ nT >= 2
           /\ \A i \in 1..nT : ~IsZero(heap[u].e[i]) /\ ~IsZero(heap[u].b[i])
           /\ heap[y].e = heap[u].e /\ heap[y].b = heap[u].b

(* C6: AhVec of a history that is zero at every time index is zero at     *)
(* every time index.                                                      *)
ZeroForcing ==
    ret.op = "AhVec" =>
        (ZeroHistory(heap[origin[ret.obj].src]) => ZeroHistory(heap[ret.obj]))

ZeroForcingWitness ==
    /\ ret.op = "AhVec"
    /\ origin[origin[ret.obj].src].op = "input"
    /\ ZeroHistory(heap[origin[ret.obj].src])
    /\ ZeroHistory(heap[ret.obj])
    /\ nT >= 2

(* C9: the history G returns has exactly the time indices 0..nT-1, b zero *)
(* of length nF at each, and each column of e equal to -(u.e column * c)  *)
(* with c = edgeMassDeriv * transformDeriv(m) * v.                        *)
GFields ==
    ret.op = "G" =>
        LET p == ret.obj
            u == heap[origin[p].src]
            c == MatMul(getEdgeMassDeriv, MatMul(transformDeriv(ret.m), Col(origin[p].v)))
        IN  /\ Len(heap[p].e) = nT /\ Len(heap[p].b) = nT
            /\ heap[p].b0 = Zeros(nF, nTx)
            /\ \A i \in 1..nT :
                  /\ heap[p].b[i] = Zeros(nF, 1)
                  /\ NRows(heap[p].e[i]) = nE /\ NCols(heap[p].e[i]) = NCols(u.e[i])
                  /\ \A r \in 1..nE : \A j \in 1..NCols(u.e[i]) :
                        heap[p].e[i][r][j] = RNeg(RMul(u.e[i][r][j], c[r][1]))

GFieldsWitness ==
    /\ ret.op = "G"
    /\ nT >= 2
    /\ origin[origin[ret.obj].src].op = "input"
    /\ \A i \in 1..nT : ~IsZero(heap[ret.obj].e[i])

(* C5: G is linear in v.  For the history p that G(m, v, u) returns and   *)
(* every way of writing v = alpha*v1 + beta*v2, p is alpha*G(m, v1, u) +  *)
(* beta*G(m, v2, u) at every time index, in e and in b.                   *)
Scalars == {1, 2, Num(-1)}
LinBasis == { <<1, 0>>, <<0, 1>>, <<1, 1>> }
Comb(a, v1, b, v2) == MkSeq(Len(v1), LAMBDA k : RAdd(RMul(a, v1[k]), RMul(b, v2[k])))

(* G(m, v, u) evaluated on a heap that holds u alone. *)
GOf(m, v, u) ==
    LET r == G([o \in 1..MaxObj |-> IF o = 1 THEN u ELSE NoObj], times, m, v, 1)
    IN  r.heap[r.obj]

GLinear ==
    ret.op = "G" =>
        \A v1 \in LinBasis, v2 \in LinBasis, a \in Scalars, b \in Scalars :
            origin[ret.obj].v = Comb(a, v1, b, v2) =>
                LET p == heap[ret.obj]
                    u == heap[origin[ret.obj].src]
                    p1 == GOf(ret.m, v1, u)
                    p2 == GOf(ret.m, v2, u)
                IN  \A i \in 1..nT :
                       /\ p.e[i] = MatAdd(Scale(a, p1.e[i]), Scale(b, p2.e[i]))
                       /\ p.b[i] = MatAdd(Scale(a, p1.b[i]), Scale(b, p2.b[i]))

GLinearWitness ==
    /\ ret.op = "G"
    /\ origin[ret.obj].v = Comb(1, <<1, 0>>, 1, <<0, 1>>)
    /\ \A i \in 1..nT : ~IsZero(heap[ret.obj].e[i])
    /\ nT >= 2

(* C8: every step of solveAh solves with getA(tInd) under the matrices of *)
(* m; its right-hand side is MfMui*curl*MeSigmaI*p.e + MfMui*p.b, plus    *)
(* (1/dt)*MfMui*b[tInd-1] exactly when tInd > 0; e = MeSigmaI*curl^T*     *)
(* MfMui*b - MeSigmaI*p.e; and where p is zero at a step tInd > 0 the     *)
(* step is the forward step.  (Checked on each step as it is stored.)     *)
SolveAhStep(y, i) ==
    LET ms == mass
        Y == heap[y]
        p == heap[origin[y].src]
        t == i - 1
        forcing == MatAdd(MatMul(ms.MfMui, MatMul(edgeCurl, MatMul(ms.MeSigmaI, p.e[i]))),
                          MatMul(ms.MfMui, p.b[i]))
        rhs == IF t > 0
               THEN MatAdd(forcing, Scale(RInv(times[i]), MatMul(ms.MfMui, Y.b[i - 1])))
               ELSE forcing
        fwd == Solve(getA(ms, times, t), getRHS(ms, times, t, Y))
    IN  /\ MatMul(getA(ms, times, t), Y.b[i]) = rhs
        /\ Y.e[i] = MatSub(MatMul(ms.MeSigmaI, MatMul(Transpose(edgeCurl), MatMul(ms.MfMui, Y.b[i]))),
                           MatMul(ms.MeSigmaI, p.e[i]))
        /\ (t > 0 /\ IsZero(p.e[i]) /\ IsZero(p.b[i])) =>
               /\ Y.b[i] = fwd
               /\ Y.e[i] = calcFields(ms, fwd, t).e

SolveAhRules ==
    (drv.pc = "step" /\ drv.mode = "Ah" /\ drv.tInd > 0) =>
        /\ mass = makeMassMatrices(drv.m)
        /\ SolveAhStep(drv.F, drv.tInd)

SolveAhRulesWitness ==
    /\ drv.pc = "step" /\ drv.mode = "Ah" /\ drv.tInd = 2
    /\ LET p == heap[drv.p]
       IN  /\ ~IsZero(p.e[1])
           /\ IsZero(p.e[2]) /\ IsZero(p.b[2])
           /\ ~IsZero(heap[drv.F].b[2]) /\ ~IsZero(heap[drv.F].e[2])

(* C7: time stepping is sequential.  When the driver (forward or solveAh) *)
(* solves step tInd > 0, b[tInd-1] of the history being built is stored,  *)
(* no b[k] with k >= tInd is, and the b it stores at tInd is the solution *)
(* for the right-hand side of a history in which every b other than       *)
(* b[tInd-1] has been overwritten.                                        *)
StepTaken == drv.pc = "step" /\ drv'.pc = "step" /\ drv'.tInd = drv.tInd + 1

Sequential ==
    [][ (StepTaken /\ drv.tInd > 0) =>
          LET F == drv.F
              t == drv.tInd
              others == [heap EXCEPT ![F] = ScrambleB(heap[F], {t - 1})]
          IN  /\ heap[F].b[t] # Unset
              /\ \A k \in (t + 1)..nT : heap[F].b[k] = Unset
              /\ heap'[F].b[t + 1] = Solve(getA(mass, times, t), RHS(drv, others)) ]_vars

SequentialWitness ==
    /\ drv.pc = "step" /\ drv.tInd = 2 /\ drv.mode = "fwd"
    /\ ~IsZero(heap[drv.F].b[1]) /\ ~IsZero(heap[drv.F].b[2])

(* C10: G(m, v, u) and AhVec(m, u) with u supplied leave every history    *)
(* that existed before the call, u among them, as it was, and return an   *)
(* object that did not exist before the call.                             *)
SuppliedCall == drv.pc = "idle" /\ ret'.op \in {"G", "AhVec"} /\ heap' # heap

Frame ==
    [][ SuppliedCall =>
          /\ ret'.obj \notin Live(heap)
          /\ ret'.obj # origin'[ret'.obj].src
          /\ \A o \in Live(heap) : heap'[o] = heap[o] ]_vars

FrameWitness ==
    /\ Made("G") # {} /\ Made("AhVec") # {}
    /\ \A o \in Made("G") \cup Made("AhVec") :
          /\ origin[origin[o].src].op = "input"
          /\ ~ZeroHistory(heap[origin[o].src])
          /\ ~ZeroHistory(heap[o])

(* C4: the matrix getA(tInd) returns equals its own transpose. *)
GetASymmetric ==
    (ret.op = "getA" /\ ret.err = "none") => ret.val = Transpose(ret.val)

GetASymmetricWitness ==
    /\ ret.op = "getA" /\ ret.err = "none" /\ ret.tInd = 1
    /\ ret.val[1][2] # RZero
    /\ ret.val[1][1] # ret.val[2][2]

(* C2, as claimed: at tInd = 0 getRHS calls get_b with no negative index, *)
(* and its result is zero for a history with no seeded initial field.     *)
GetRHSNoNegativeIndex ==
    (ret.op = "getRHS" /\ ret.err = "none" /\ ret.tInd = 0) =>
        /\ \A k \in ret.bIdx : k >= 0
        /\ IsZero(heap[ret.obj].b0) => IsZero(ret.val)

(* C2, as the code has it: at tInd = 0 getRHS reads the history at index  *)
(* -1 and nowhere else, which the container resolves to the initial       *)
(* field; the result is (1/dt)*MfMui*b0, it is zero for a history with no *)
(* seeded initial field, and it is the same whatever b the history holds  *)
(* at the time indices 0..nT-1.                                           *)
GetRHSInitialField ==
    (ret.op = "getRHS" /\ ret.err = "none" /\ ret.tInd = 0) =>
        LET F == heap[ret.obj]
        IN  /\ ret.bIdx = {-1}
            /\ ret.val = Scale(RInv(times[1]), MatMul(mass.MfMui, F.b0))
            /\ ret.val = getRHS(mass, times, 0, ScrambleB(F, {-1}))
            /\ IsZero(F.b0) => IsZero(ret.val)

GetRHSInitialFieldWitness ==
    /\ ret.op = "getRHS" /\ ret.err = "none" /\ ret.tInd = 0
    /\ nT >= 2
    /\ IsZero(heap[ret.obj].b0)
    /\ ~IsZero(heap[ret.obj].b[nT])
    /\ IsZero(ret.val)

(* C3, as claimed: getA and getRHS fail when the mass matrices were never *)
(* built or were last built for a model other than the caller's.          *)
StaleMassRejected ==
    (ret.op \in {"getA", "getRHS"} /\ (~mass.built \/ mass.m # ret.m)) => ret.err # "none"

====
